---- MODULE Spec2Model ----
(***************************************************************************)
(* Model of the grocery assistant backend: the GroceryAssistant object     *)
(* (assistant_logic.py), the Chatbot keyword dispatcher (chatbot_logic.py) *)
(* and the endpoints of main.py that call them.                            *)
(*                                                                         *)
(* A Python str is a sequence of one-character strings, so that lower(),   *)
(* the substring test `in` and the regular expressions act on characters.  *)
(* An Optional value is a sequence of length 0 (None) or 1.  A date is a   *)
(* record [year, month, day]; an ISO date string is a str of 10            *)
(* characters.  A JSON file is a record [state, data] whose state is       *)
(* "missing", "malformed" (json.load raises JSONDecodeError) or "ok".      *)
(***************************************************************************)
EXTENDS Integers, Sequences, FiniteSets, TLC

VARIABLES
    pc,                 \* position in GroceryAssistant.__init__, then "ready"
    today,              \* what datetime.date.today() returns
    items,              \* assistant.items
    purchase_history,   \* assistant.purchase_history (a dict, in insertion order)
    categories,         \* assistant.categories
    listFile,           \* grocery_list.json
    historyFile,        \* purchase_history.json
    categoriesFile,     \* categories.json
    last                \* the last call: its name, its argument (of a load: the
                        \* file it read), its result, the files it wrote

vars == <<pc, today, items, purchase_history, categories,
          listFile, historyFile, categoriesFile, last>>

---------------------------------------------------------------------------
(* Bounds of the model *)

MaxItems == 2       \* longest grocery list the add operations build
MaxTicks == 1       \* days that pass after the start date
MaxRawKeys == 2     \* raw keys of the purchase_history.json found at start

---------------------------------------------------------------------------
(* Python str *)

UpperCase == <<"A", "B", "C", "D", "E", "F", "G", "H", "I", "J", "K", "L", "M",
               "N", "O", "P", "Q", "R", "S", "T", "U", "V", "W", "X", "Y", "Z">>
LowerCase == <<"a", "b", "c", "d", "e", "f", "g", "h", "i", "j", "k", "l", "m",
               "n", "o", "p", "q", "r", "s", "t", "u", "v", "w", "x", "y", "z">>
DigitChars == <<"0", "1", "2", "3", "4", "5", "6", "7", "8", "9">>

Range(s) == {s[i] : i \in 1..Len(s)}

DigitSet == Range(DigitChars)
WordSet == Range(UpperCase) \cup Range(LowerCase) \cup Range(DigitChars) \cup {"_"}

IsDigit(c) == c \in DigitSet       \* \d
IsWord(c) == c \in WordSet         \* \w
IsSpace(c) == c = " "              \* \s

LowerOf ==
    [c \in Range(UpperCase) |->
        LowerCase[CHOOSE i \in 1..Len(UpperCase) : UpperCase[i] = c]]

lower_char(c) == IF c \in DOMAIN LowerOf THEN LowerOf[c] ELSE c

\* s.lower()
lower(s) == [i \in 1..Len(s) |-> lower_char(s[i])]

\* kw in s
Contains(s, kw) ==
    \E i \in 1..(Len(s) - Len(kw) + 1) : SubSeq(s, i, i + Len(kw) - 1) = kw

\* s.strip()
RECURSIVE lstrip(_)
lstrip(s) == IF s # <<>> /\ IsSpace(Head(s)) THEN lstrip(Tail(s)) ELSE s
RECURSIVE rstrip(_)
rstrip(s) ==
    IF s # <<>> /\ IsSpace(s[Len(s)]) THEN rstrip(SubSeq(s, 1, Len(s) - 1)) ELSE s
strip(s) == rstrip(lstrip(s))

None == <<>>
Some(x) == <<x>>

---------------------------------------------------------------------------
(* datetime.date *)

Date(y, m, d) == [year |-> y, month |-> m, day |-> d]

is_leap(y) == y % 4 = 0 /\ (y % 100 # 0 \/ y % 400 = 0)

days_in_month(y, m) ==
    IF m = 2 THEN (IF is_leap(y) THEN 29 ELSE 28)
    ELSE IF m \in {4, 6, 9, 11} THEN 30 ELSE 31

RECURSIVE days_before_month(_, _)
days_before_month(y, m) ==
    IF m = 1 THEN 0 ELSE days_before_month(y, m - 1) + days_in_month(y, m - 1)

days_before_year(y) ==
    (y - 1) * 365 + (y - 1) \div 4 - (y - 1) \div 100 + (y - 1) \div 400

toordinal(d) == days_before_year(d.year) + days_before_month(d.year, d.month) + d.day

\* (a - b).days
days_between(a, b) == toordinal(a) - toordinal(b)

\* the day after d: what date.today() returns one day later
next_day(d) ==
    IF d.day < days_in_month(d.year, d.month) THEN Date(d.year, d.month, d.day + 1)
    ELSE IF d.month < 12 THEN Date(d.year, d.month + 1, 1)
    ELSE Date(d.year + 1, 1, 1)

digit(n) == DigitChars[n + 1]
pad2(n) == <<digit((n \div 10) % 10), digit(n % 10)>>
pad4(n) == pad2(n \div 100) \o pad2(n % 100)

\* d.isoformat(), str(d)
isoformat(d) == pad4(d.year) \o <<"-">> \o pad2(d.month) \o <<"-">> \o pad2(d.day)

digit_value(c) == (CHOOSE i \in 1..Len(DigitChars) : DigitChars[i] = c) - 1

RECURSIVE number(_)
number(s) ==
    IF s = <<>> THEN 0
    ELSE 10 * number(SubSeq(s, 1, Len(s) - 1)) + digit_value(s[Len(s)])

\* datetime.datetime.strptime(s, '%Y-%m-%d').date(), for s of the form YYYY-MM-DD
strptime(s) ==
    Date(number(SubSeq(s, 1, 4)), number(SubSeq(s, 6, 7)), number(SubSeq(s, 9, 10)))

---------------------------------------------------------------------------
(* models.Product and its JSON form *)

Product(name, quantity, unit, category, purchase_date, expiry_date) ==
    [name |-> name, quantity |-> quantity, unit |-> unit, category |-> category,
     purchase_date |-> purchase_date, expiry_date |-> expiry_date]

\* item.dict() written by json.dump(..., default=str): a date becomes str(date)
item_to_json(item) ==
    [item EXCEPT
        !.purchase_date = IF @ = None THEN None ELSE Some(isoformat(@[1])),
        !.expiry_date = IF @ = None THEN None ELSE Some(isoformat(@[1]))]

\* Product(**item_data): pydantic parses an ISO date string into a date
item_from_json(data) ==
    [data EXCEPT
        !.purchase_date = IF @ = None THEN None ELSE Some(strptime(@[1])),
        !.expiry_date = IF @ = None THEN None ELSE Some(strptime(@[1]))]

MapSeq(s, Op(_)) == [i \in 1..Len(s) |-> Op(s[i])]

---------------------------------------------------------------------------
(* Python dict: a sequence of [key, value] in insertion order, keys distinct *)

dict_keys(d) == {d[i].key : i \in 1..Len(d)}
dict_has(d, k) == k \in dict_keys(d)
dict_get(d, k) == d[CHOOSE i \in 1..Len(d) : d[i].key = k].value
\* d[k] = v
dict_set(d, k, v) ==
    IF dict_has(d, k)
    THEN [i \in 1..Len(d) |-> IF d[i].key = k THEN [key |-> k, value |-> v] ELSE d[i]]
    ELSE Append(d, [key |-> k, value |-> v])

HistoryValue(s) == [last_purchase_date |-> s]

---------------------------------------------------------------------------
(* Files *)

Missing == [state |-> "missing", data |-> <<>>]
Malformed == [state |-> "malformed", data |-> <<>>]
Stored(data) == [state |-> "ok", data |-> data]

---------------------------------------------------------------------------
(* GroceryAssistant.  A method is an operator from the object and the files *)
(* (a record S) to [st, ret, raised]: the object and files after the call,  *)
(* the value returned, and the exception that left the method ("" if none). *)

Cur == [items |-> items, purchase_history |-> purchase_history,
        categories |-> categories, listFile |-> listFile,
        historyFile |-> historyFile, categoriesFile |-> categoriesFile,
        wrote |-> {}]

Returns(S, v) == [st |-> S, ret |-> v, raised |-> ""]
Raises(S, e) == [st |-> S, ret |-> None, raised |-> e]

\* a slip: the dates are compared by their day of the month alone
date_gt_by_day(a, b) == a.day > b.day

\* a > b on dates
date_gt(a, b) ==
    \/ a.year > b.year
    \/ a.year = b.year /\ a.month > b.month
    \/ a.year = b.year /\ a.month = b.month /\ a.day > b.day

\* the loop of load_purchase_history over history.items()
RECURSIVE normalize(_, _)
normalize(history, normalized_history) ==
    IF history = <<>> THEN normalized_history
    ELSE
        LET key == Head(history).key
            value == Head(history).value
            lower_key == lower(key)
        IN  IF dict_has(normalized_history, lower_key)
            THEN
                LET existing_date ==
                        strptime(dict_get(normalized_history, lower_key).last_purchase_date)
                    new_date == strptime(value.last_purchase_date)
                IN  IF date_gt(new_date, existing_date)
                    THEN normalize(Tail(history),
                            dict_set(normalized_history, lower_key,
                                [dict_get(normalized_history, lower_key)
                                    EXCEPT !.last_purchase_date = value.last_purchase_date]))
                    ELSE normalize(Tail(history), normalized_history)
            ELSE normalize(Tail(history), dict_set(normalized_history, lower_key, value))

load_purchase_history(S) ==
    IF S.historyFile.state # "ok"
    THEN Returns(S, <<>>)       \* FileNotFoundError, json.JSONDecodeError
    ELSE
        LET normalized_history == normalize(S.historyFile.data, <<>>)
        IN  Returns([S EXCEPT !.historyFile = Stored(normalized_history),
                              !.wrote = @ \cup {"history"}],
                    normalized_history)

load_categories(S) ==
    IF S.categoriesFile.state = "missing" THEN Returns(S, <<>>)   \* FileNotFoundError
    ELSE IF S.categoriesFile.state = "malformed" THEN Raises(S, "JSONDecodeError")
    ELSE Returns(S, S.categoriesFile.data)

load_grocery_list(S) ==
    IF S.listFile.state # "ok"
    THEN Returns([S EXCEPT !.items = <<>>], None)
    ELSE Returns([S EXCEPT !.items = MapSeq(S.listFile.data, item_from_json)], None)

\* a slip: a list that has become empty is not written
save_grocery_list_unless_empty(S) ==
    IF S.items = <<>> THEN S
    ELSE [S EXCEPT !.listFile = Stored(MapSeq(S.items, item_to_json)),
                   !.wrote = @ \cup {"list"}]

save_grocery_list(S) ==
    [S EXCEPT !.listFile = Stored(MapSeq(S.items, item_to_json)),
              !.wrote = @ \cup {"list"}]

\* a slip: an item whose name is already listed is not added again
add_item_unless_listed(S, item) ==
    IF \E i \in 1..Len(S.items) : lower(S.items[i].name) = lower(item.name)
    THEN Returns(S, item)
    ELSE Returns(save_grocery_list([S EXCEPT !.items = Append(@, item)]), item)

add_item_to_list(S, item) ==
    Returns(save_grocery_list([S EXCEPT !.items = Append(@, item)]), item)

\* a slip: only the first matching entry is removed
remove_first_item_from_list(S, item_name) ==
    LET hits == {i \in 1..Len(S.items) : lower(S.items[i].name) = lower(item_name)}
    IN  IF hits = {} THEN Returns(S, FALSE)
        ELSE LET f == CHOOSE i \in hits : \A j \in hits : i <= j
                 kept == SubSeq(S.items, 1, f - 1) \o SubSeq(S.items, f + 1, Len(S.items))
             IN  Returns(save_grocery_list([S EXCEPT !.items = kept]), TRUE)

remove_item_from_list(S, item_name) ==
    LET initial_count == Len(S.items)
        kept == SelectSeq(S.items, LAMBDA item : lower(item.name) # lower(item_name))
        S1 == [S EXCEPT !.items = kept]
    IN  IF Len(kept) < initial_count
        THEN Returns(save_grocery_list(S1), TRUE)
        ELSE Returns(S1, FALSE)

get_grocery_list(S) == Returns(S, S.items)

---------------------------------------------------------------------------
(* Suggestions and reminders.  A formatted message is the tuple of its     *)
(* template and the values formatted into it.                              *)

\* a slip: the threshold one day short (>= 7 days instead of > 7 days)
MissingThresholdOffByOne == 7 - 1

MissingThresholdDays == 7

\* the loop of suggest_missing_items over self.purchase_history.items()
RECURSIVE missing_loop(_, _, _, _)
missing_loop(history, current_list_lower, processed_items, now) ==
    IF history = <<>> THEN <<>>
    ELSE
        LET item_name == Head(history).key
            data == Head(history).value
            item_name_lower == lower(item_name)
        IN  IF item_name_lower \in processed_items
            THEN missing_loop(Tail(history), current_list_lower, processed_items, now)
            ELSE
                LET rest == missing_loop(Tail(history), current_list_lower,
                                processed_items \cup {item_name_lower}, now)
                    last_purchase_date == strptime(data.last_purchase_date)
                IN  IF /\ item_name_lower \notin current_list_lower
                       /\ days_between(now, last_purchase_date) > MissingThresholdDays
                    THEN <<  <<"You bought {} a last week, consider adding it.",
                               item_name>>  >> \o rest
                    ELSE rest

suggest_missing_items(S, now) ==
    LET current_list_lower == {lower(S.items[i].name) : i \in 1..Len(S.items)}
    IN  missing_loop(S.purchase_history, current_list_lower, {}, now)

healthier_alternatives ==
    <<[key |-> <<"w", "h", "i", "t", "e", " ", "b", "r", "e", "a", "d">>,
       value |-> <<"b", "r", "o", "w", "n", " ", "b", "r", "e", "a", "d">>],
      [key |-> <<"s", "o", "d", "a">>,
       value |-> <<"w", "a", "t", "e", "r">>],
      [key |-> <<"c", "h", "i", "p", "s">>,
       value |-> <<"n", "u", "t", "s">>],
      [key |-> <<"w", "h", "i", "t", "e", " ", "r", "i", "c", "e">>,
       value |-> <<"b", "r", "o", "w", "n", " ", "r", "i", "c", "e">>],
      [key |-> <<"r", "e", "g", "u", "l", "a", "r", " ", "m", "i", "l", "k">>,
       value |-> <<"a", "l", "m", "o", "n", "d", " ", "m", "i", "l", "k">>],
      [key |-> <<"b", "u", "t", "t", "e", "r">>,
       value |-> <<"o", "l", "i", "v", "e", " ", "o", "i", "l">>],
      [key |-> <<"i", "c", "e", " ", "c", "r", "e", "a", "m">>,
       value |-> <<"g", "r", "e", "e", "k", " ", "y", "o", "g", "u", "r", "t">>],
      [key |-> <<"c", "o", "o", "k", "i", "e", "s">>,
       value |-> <<"w", "h", "o", "l", "e", " ", "g", "r", "a", "i", "n", " ", "o", "a", "t", "s">>],
      [key |-> <<"c", "a", "n", "d", "y">>,
       value |-> <<"f", "r", "e", "s", "h", " ", "f", "r", "u", "i", "t">>]>>

RECURSIVE healthier_loop(_)
healthier_loop(its) ==
    IF its = <<>> THEN <<>>
    ELSE
        LET item == Head(its)
        IN  IF dict_has(healthier_alternatives, lower(item.name))
            THEN << <<"Instead of {}, consider {} as a healthier alternative.",
                      item.name, dict_get(healthier_alternatives, lower(item.name))>> >>
                 \o healthier_loop(Tail(its))
            ELSE healthier_loop(Tail(its))

suggest_healthier_alternatives(S) == healthier_loop(S.items)

\* a slip: the window opens today (0..5) instead of tomorrow (1..5)
ExpiryWindowFromToday == 1 - 1

ExpiryWindowFirst == 1
ExpiryWindowLast == 5

RECURSIVE expiry_loop(_, _)
expiry_loop(its, now) ==
    IF its = <<>> THEN <<>>
    ELSE
        LET item == Head(its)
        IN  IF item.expiry_date # None
            THEN
                LET time_to_expiry == days_between(item.expiry_date[1], now)
                IN  IF ExpiryWindowFirst <= time_to_expiry
                       /\ time_to_expiry <= ExpiryWindowLast
                    THEN << <<"Reminder: {} is expiring in {} days.",
                              item.name, time_to_expiry>> >>
                         \o expiry_loop(Tail(its), now)
                    ELSE expiry_loop(Tail(its), now)
            ELSE expiry_loop(Tail(its), now)

get_expiry_reminders(S, now) == expiry_loop(S.items, now)

---------------------------------------------------------------------------
(* Purchase management *)

\* the loop of mark_items_as_purchased over self.items
RECURSIVE purchase_loop(_, _, _)
purchase_loop(its, history, today_str) ==
    IF its = <<>> THEN history
    ELSE purchase_loop(Tail(its),
                       dict_set(history, lower(Head(its).name), HistoryValue(today_str)),
                       today_str)

\* a slip: the list is emptied before the history is updated from it
mark_items_as_purchased_clears_first(S, now) ==
    LET today_str == isoformat(now)
        S0 == save_grocery_list([S EXCEPT !.items = <<>>])
        history == purchase_loop(S0.items, S0.purchase_history, today_str)
    IN  Returns([S0 EXCEPT !.purchase_history = history,
                           !.historyFile = Stored(history),
                           !.wrote = @ \cup {"history"}],
                "Purchase history updated and grocery list cleared.")

mark_items_as_purchased(S, now) ==
    LET today_str == isoformat(now)
        history == purchase_loop(S.items, S.purchase_history, today_str)
        S1 == [S EXCEPT !.purchase_history = history,
                        !.historyFile = Stored(history),
                        !.wrote = @ \cup {"history"}]
        S2 == save_grocery_list([S1 EXCEPT !.items = <<>>])
    IN  Returns(S2, "Purchase history updated and grocery list cleared.")

---------------------------------------------------------------------------
(* Inputs *)

n_Milk == <<"M", "i", "l", "k">>
n_milk == <<"m", "i", "l", "k">>
n_MILK == <<"M", "I", "L", "K">>
n_Soda == <<"S", "o", "d", "a">>
n_soda == <<"s", "o", "d", "a">>
n_tea == <<"t", "e", "a">>
u_l == <<"l">>
c_dairy == <<"d", "a", "i", "r", "y">>
d_2024_01_30 == <<"2", "0", "2", "4", "-", "0", "1", "-", "3", "0">>
d_2024_02_21 == <<"2", "0", "2", "4", "-", "0", "2", "-", "2", "1">>

StartDate == Date(2024, 2, 28)

\* items posted to /grocery-list
ApiItems ==
    {Product(n_Milk, Some(<<"2">>), Some(u_l), Some(c_dairy), None,
             Some(Date(2024, 2, 29))),
     Product(n_Soda, None, None, None, Some(Date(2024, 2, 27)), Some(Date(2024, 3, 5)))}

\* names given to DELETE /grocery-list/{item_name}
RemoveQueries == {n_MILK, n_tea}

m_add_to_list == <<"A", "d", "d", " ", "2", " ", "k", "g", " ", "o", "f", " ", "M", "i", "l", "k", " ", "t", "o", " ", "l", "i", "s", "t">>
m_add_short == <<"a", "d", "d", " ", "m", "i", "l", "k">>
m_remove_milk == <<"R", "e", "m", "o", "v", "e", " ", "M", "I", "L", "K">>
m_remove_bare == <<"r", "e", "m", "o", "v", "e">>
m_expiring == <<"w", "h", "a", "t", " ", "i", "s", " ", "e", "x", "p", "i", "r", "i", "n", "g">>
m_suggestions == <<"a", "n", "y", " ", "s", "u", "g", "g", "e", "s", "t", "i", "o", "n", "s">>
m_clear_list == <<"c", "l", "e", "a", "r", " ", "l", "i", "s", "t">>
m_purchase_list == <<"p", "u", "r", "c", "h", "a", "s", "e", " ", "l", "i", "s", "t">>
m_purchase == <<"p", "u", "r", "c", "h", "a", "s", "e", " ", "d", "o", "n", "e">>
m_hello == <<"H", "e", "l", "l", "o">>
m_this == <<"t", "h", "i", "s">>
m_thanks == <<"t", "h", "a", "n", "k", "s">>

\* messages posted to /chatbot
Messages ==
    {m_add_to_list, m_add_short, m_remove_milk, m_remove_bare,
     m_expiring, m_suggestions, m_clear_list,
     m_purchase_list, m_purchase, m_hello, m_this,
     m_thanks}

\* contents of purchase_history.json at start: a JSON object of at most
\* MaxRawKeys raw keys
RawKeys == {n_Milk, n_milk, n_Soda}
RawDates == {d_2024_01_30, d_2024_02_21}
RawEntries == {[key |-> k, value |-> HistoryValue(d)] : k \in RawKeys, d \in RawDates}
RECURSIVE RawHistories(_)
RawHistories(n) ==
    IF n = 0 THEN {<<>>}
    ELSE LET shorter == RawHistories(n - 1)
         IN  shorter \cup
             {Append(h, e) : h \in {x \in shorter : Len(x) = n - 1},
                             e \in {y \in RawEntries : TRUE}}

DistinctKeys(h) == Cardinality(dict_keys(h)) = Len(h)

HistoryFiles ==
    {Missing, Malformed}
    \cup {Stored(h) : h \in {x \in RawHistories(MaxRawKeys) : DistinctKeys(x)}}

ListFiles ==
    {Missing, Malformed, Stored(<<>>)}
    \cup {Stored(<<item_to_json(i)>>) : i \in ApiItems}

\* the stored history of the running program's start: two raw keys collide
StartHistory ==
    <<[key |-> n_Milk, value |-> HistoryValue(d_2024_01_30)],
      [key |-> n_Soda, value |-> HistoryValue(d_2024_01_30)],
      [key |-> n_milk, value |-> HistoryValue(d_2024_02_21)]>>

Catalog == <<[key |-> c_dairy, value |-> <<n_milk>>]>>
CategoriesFiles == {Missing, Malformed, Stored(Catalog)}

\* the disks the running program is started on: [list, history, categories]
StartDisks ==
    {<<Missing, Missing, Missing>>,
     <<Malformed, Malformed, Missing>>,
     <<Stored(<<>>), Stored(StartHistory), Malformed>>,
     <<Stored(<<item_to_json(
                    Product(n_Soda, None, None, None, Some(Date(2024, 2, 27)),
                            Some(Date(2024, 3, 5))))>>),
       Stored(StartHistory), Stored(Catalog)>>}

---------------------------------------------------------------------------
(* Chatbot: the regular expressions of _handle_add and _handle_remove.      *)
(* A position p of a message m is the index of the next character to read,  *)
(* 1..Len(m)+1.  Each operator below matches the rest of a pattern from a   *)
(* position and tries its alternatives in the order the backtracking        *)
(* matcher of re does: a greedy repetition longest first, a lazy one        *)
(* shortest first, an optional group present first.                         *)

s_add == <<"a", "d", "d">>
s_remove == <<"r", "e", "m", "o", "v", "e">>
s_expiring == <<"e", "x", "p", "i", "r", "i", "n", "g">>
s_suggestions == <<"s", "u", "g", "g", "e", "s", "t", "i", "o", "n", "s">>
s_list == <<"l", "i", "s", "t">>
s_show_list == <<"s", "h", "o", "w", " ", "l", "i", "s", "t">>
s_clear_list == <<"c", "l", "e", "a", "r", " ", "l", "i", "s", "t">>
s_purchase == <<"p", "u", "r", "c", "h", "a", "s", "e">>
s_hello == <<"h", "e", "l", "l", "o">>
s_hi == <<"h", "i">>
s_of == <<"o", "f">>
s_to == <<"t", "o">>
s_pcs == <<"p", "c", "s">>

NoMatch == [ok |-> FALSE]

Max(S) == CHOOSE x \in S : \A y \in S : y <= x
Min(S) == CHOOSE x \in S : \A y \in S : x <= y

At(m, p, kw) == p + Len(kw) - 1 <= Len(m) /\ SubSeq(m, p, p + Len(kw) - 1) = kw

\* end of the longest run of \s, \w, \d, [\w\s] characters that starts at p
RECURSIVE SpaceEnd(_, _)
SpaceEnd(m, p) == IF p <= Len(m) /\ IsSpace(m[p]) THEN SpaceEnd(m, p + 1) ELSE p
RECURSIVE WordEnd(_, _)
WordEnd(m, p) == IF p <= Len(m) /\ IsWord(m[p]) THEN WordEnd(m, p + 1) ELSE p
RECURSIVE DigitEnd(_, _)
DigitEnd(m, p) == IF p <= Len(m) /\ IsDigit(m[p]) THEN DigitEnd(m, p + 1) ELSE p
RECURSIVE NameEnd(_, _)
NameEnd(m, p) ==
    IF p <= Len(m) /\ (IsWord(m[p]) \/ IsSpace(m[p])) THEN NameEnd(m, p + 1) ELSE p

\* (\s+to\s+(?P<category>\w+))?$ at e, the group present: the two \s+ end at the
\* next character that is no space, and \w+ must reach the end of the message
re_category(m, e) ==
    LET a == SpaceEnd(m, e)
        b == SpaceEnd(m, a + 2)
    IN  IF /\ a > e
           /\ At(m, a, s_to)
           /\ b > a + 2
           /\ WordEnd(m, b) > b
           /\ WordEnd(m, b) = Len(m) + 1
        THEN [ok |-> TRUE, category |-> Some(SubSeq(m, b, Len(m)))]
        ELSE NoMatch

\* the alternative tried first among those of r that match: the one at the
\* greatest position (a greedy repetition, an optional group taken) or at the
\* least (a lazy repetition, the leftmost start of a search)
PickLast(r) ==
    LET K == {k \in DOMAIN r : r[k].ok}
    IN  IF K = {} THEN NoMatch ELSE r[Max(K)]
PickFirst(r) ==
    LET K == {k \in DOMAIN r : r[k].ok}
    IN  IF K = {} THEN NoMatch ELSE r[Min(K)]

\* the name from s to the least end e at which the category group (c[e]), or
\* else the end of the message, matches
name_match(m, s, c) ==
    LET E == {e \in DOMAIN c : c[e].ok \/ e = Len(m) + 1}
    IN  IF E = {} THEN NoMatch
        ELSE [ok |-> TRUE, name |-> SubSeq(m, s, Min(E) - 1),
              category |-> IF c[Min(E)].ok THEN c[Min(E)].category ELSE None]

\* (?P<name>[\w\s]+?)(\s+to\s+(?P<category>\w+))?$ with the name starting at s
re_name(m, s) ==
    name_match(m, s, [e \in (s + 1)..NameEnd(m, s) |-> re_category(m, e)])

\* \s+(?P<name>...)... at j
re_space_name(m, j) ==
    PickLast([k \in (j + 1)..SpaceEnd(m, j) |-> re_name(m, k)])

\* where (\s+of)? can end when it starts at j: behind "of", or at j (left out)
of_ends(m, j) ==
    IF SpaceEnd(m, j) > j /\ At(m, SpaceEnd(m, j), s_of)
    THEN {SpaceEnd(m, j) + 2, j} ELSE {j}

\* (\s+of)?\s+(?P<name>...)... at j
re_of(m, j) ==
    PickLast([k \in of_ends(m, j) |-> re_space_name(m, k)])

\* the longest unit from u after which the rest (r[v]) matches; the empty one
\* (v = u) stands for the group left out
unit_match(m, u, r) ==
    LET V == {v \in DOMAIN r : r[v].ok}
    IN  IF V = {} THEN NoMatch
        ELSE [ok |-> TRUE,
              unit |-> IF Max(V) > u THEN Some(SubSeq(m, u, Max(V) - 1)) ELSE None,
              name |-> r[Max(V)].name, category |-> r[Max(V)].category]

\* (?P<unit>\w+)?(\s+of)?\s+(?P<name>...)... at u
re_unit(m, u) ==
    unit_match(m, u, [v \in u..WordEnd(m, u) |-> re_of(m, v)])

\* \s+ and the rest, after the quantity that ends at f
re_space_unit(m, f) ==
    PickLast([g \in (f + 1)..SpaceEnd(m, f) |-> re_unit(m, g)])

\* where (\.\d+)? can end when it starts at d: behind the digits, or at d
fraction_ends(m, d) ==
    (IF At(m, d, <<".">>) THEN (d + 2)..DigitEnd(m, d + 1) ELSE {}) \cup {d}

\* the longest fraction after which the rest (r[f]) matches, with its end
fraction_match(r) ==
    LET F == {f \in DOMAIN r : r[f].ok}
    IN  IF F = {} THEN NoMatch
        ELSE [ok |-> TRUE, qend |-> Max(F), unit |-> r[Max(F)].unit,
              name |-> r[Max(F)].name, category |-> r[Max(F)].category]

\* (\.\d+)?\s+ and the rest, after the \d+ that ends at d
re_fraction(m, d) ==
    fraction_match([f \in fraction_ends(m, d) |-> re_space_unit(m, f)])

\* the longest \d+ from q with which the quantity group and the rest (r[d])
\* match, else the rest without the group
quantity_match(m, q, r, without) ==
    LET D == {d \in DOMAIN r : r[d].ok}
    IN  IF D # {}
        THEN [ok |-> TRUE, quantity |-> Some(SubSeq(m, q, r[Max(D)].qend - 1)),
              unit |-> r[Max(D)].unit, name |-> r[Max(D)].name,
              category |-> r[Max(D)].category]
        ELSE IF without.ok
        THEN [ok |-> TRUE, quantity |-> None, unit |-> without.unit,
              name |-> without.name, category |-> without.category]
        ELSE NoMatch

\* ((?P<quantity>\d+(\.\d+)?)\s+)? and the rest at q
re_quantity(m, q) ==
    quantity_match(m, q, [d \in (q + 1)..DigitEnd(m, q) |-> re_fraction(m, d)],
                   re_unit(m, q))

\* add\s+ and the rest at p
re_add_at(m, p) ==
    IF At(m, p, s_add)
    THEN PickLast([w \in (p + 4)..SpaceEnd(m, p + 3) |-> re_quantity(m, w)])
    ELSE NoMatch

\* re.search(r"add\s+((?P<quantity>\d+(\.\d+)?)\s+)?(?P<unit>\w+)?(\s+of)?\s+
\*             (?P<name>[\w\s]+?)(\s+to\s+(?P<category>\w+))?$", m)
re_search_add(m) == PickFirst([p \in 1..Len(m) |-> re_add_at(m, p)])

\* remove\s+(?P<name>[\w\s]+) at p: the longest \s+ that leaves the name a
\* character, then the longest name
re_remove_at(m, p) ==
    LET K == {k \in (p + 7)..SpaceEnd(m, p + 6) : NameEnd(m, k) > k}
    IN  IF At(m, p, s_remove) /\ K # {}
        THEN [ok |-> TRUE, name |-> SubSeq(m, Max(K), NameEnd(m, Max(K)) - 1)]
        ELSE NoMatch

\* re.search(r"remove\s+(?P<name>[\w\s]+)", m)
re_search_remove(m) == PickFirst([p \in 1..Len(m) |-> re_remove_at(m, p)])

\* message.lower() and the two searches, for each message of the model
Lowered == [m \in Messages |-> lower(m)]
LoweredMessages == {lower(m) : m \in Messages}
AddMatches == [m \in LoweredMessages |-> re_search_add(m)]
RemoveMatches == [m \in LoweredMessages |-> re_search_remove(m)]

---------------------------------------------------------------------------
(* Chatbot handlers: each returns the object and files after the call, the  *)
(* reply and the refresh flag.                                              *)

Handled(S, reply, refresh) == [st |-> S, reply |-> reply, refresh |-> refresh]

AddUsageHint ==
    <<"I'm sorry, I couldn't figure out what to add. Please use the format: 'add [quantity] [unit] of [item name] to [category]'">>
RemoveUsageHint ==
    <<"I'm sorry, I couldn't figure out what to remove. Please use the format: 'remove [item name]'">>

\* a slip: a message the pattern does not match is added as typed
_handle_add_unmatched(S, message) ==
    LET match == AddMatches[message]
        item_name == IF match.ok THEN strip(match.name) ELSE message
        unit == IF ~match.ok \/ match.unit = None THEN Some(s_pcs) ELSE match.unit
        category == IF match.ok THEN match.category ELSE None
        product == Product(item_name, None, unit, category, None, None)
    IN  Handled(add_item_to_list(S, product).st,
                <<"I've added {} to your list.", item_name>>, TRUE)

_handle_add(S, message) ==
    LET match == AddMatches[message]
    IN  IF ~match.ok THEN Handled(S, AddUsageHint, FALSE)
        ELSE
            LET item_name == strip(match.name)
                unit == IF match.unit = None \/ match.unit = Some(<<>>)
                        THEN Some(s_pcs) ELSE match.unit
                category == match.category
                product == Product(item_name, None, unit, category, None, None)
            IN  Handled(add_item_to_list(S, product).st,
                        <<"I've added {} to your list.", item_name>>, TRUE)

\* a slip: a removal that succeeded does not ask for a refresh
_handle_remove_no_refresh(S, message) ==
    LET match == RemoveMatches[message]
    IN  IF ~match.ok THEN Handled(S, RemoveUsageHint, FALSE)
        ELSE
            LET item_name == strip(match.name)
                r == remove_item_from_list(S, item_name)
            IN  IF r.ret
                THEN Handled(r.st, <<"I've removed {} from your list.", item_name>>, FALSE)
                ELSE Handled(r.st, <<"I couldn't find {} in your list.", item_name>>, FALSE)

_handle_remove(S, message) ==
    LET match == RemoveMatches[message]
    IN  IF ~match.ok THEN Handled(S, RemoveUsageHint, FALSE)
        ELSE
            LET item_name == strip(match.name)
                r == remove_item_from_list(S, item_name)
            IN  IF r.ret
                THEN Handled(r.st, <<"I've removed {} from your list.", item_name>>, TRUE)
                ELSE Handled(r.st, <<"I couldn't find {} in your list.", item_name>>, FALSE)

_handle_expiring(S, message, now) ==
    LET reminders == get_expiry_reminders(S, now)
    IN  IF reminders # <<>>
        THEN Handled(S, <<"Here are the items that are expiring soon:\n", reminders>>, FALSE)
        ELSE Handled(S, <<"You have no items expiring soon.">>, FALSE)

_handle_suggestions(S, message, now) ==
    LET missing == suggest_missing_items(S, now)
        healthier == suggest_healthier_alternatives(S)
        suggestions ==
            (IF missing # <<>> THEN << <<"Missing items:\n", missing>> >> ELSE <<>>)
            \o (IF healthier # <<>>
                THEN << <<"Healthier alternatives:\n", healthier>> >> ELSE <<>>)
    IN  IF suggestions # <<>>
        THEN Handled(S, suggestions, FALSE)
        ELSE Handled(S, <<"I have no suggestions for you right now.">>, FALSE)

\* a line of _get_list
list_line(item) ==
    IF item.category # None /\ item.category # Some(<<>>)
    THEN <<"- {} ({}, {})\n", item.name, item.unit, item.category[1]>>
    ELSE <<"- {} ({})\n", item.name, item.unit>>

_get_list(S) ==
    IF S.items = <<>> THEN <<"Your grocery list is empty.">>
    ELSE <<"Here's your grocery list:\n", MapSeq(S.items, list_line)>>

_handle_list(S, message) == Handled(S, _get_list(S), FALSE)

_handle_clear(S, message, now) ==
    Handled(mark_items_as_purchased(S, now).st,
            <<"I've cleared your grocery list and updated your purchase history.">>, TRUE)

_handle_purchase(S, message, now) ==
    Handled(mark_items_as_purchased(S, now).st,
            <<"I've marked all items as purchased and updated your purchase history.">>, TRUE)

\* a slip: "purchase" is tested before "list"
branch_purchase_first(message) ==
    IF Contains(message, s_add) THEN "_handle_add"
    ELSE IF Contains(message, s_remove) THEN "_handle_remove"
    ELSE IF Contains(message, s_expiring) THEN "_handle_expiring"
    ELSE IF Contains(message, s_suggestions) THEN "_handle_suggestions"
    ELSE IF Contains(message, s_purchase) THEN "_handle_purchase"
    ELSE IF Contains(message, s_list) \/ Contains(message, s_show_list) THEN "_handle_list"
    ELSE IF Contains(message, s_clear_list) THEN "_handle_clear"
    ELSE IF Contains(message, s_hello) \/ Contains(message, s_hi) THEN "greeting"
    ELSE "none"

\* a slip: "clear list" is tested before "list"
branch_clear_first(message) ==
    IF Contains(message, s_add) THEN "_handle_add"
    ELSE IF Contains(message, s_remove) THEN "_handle_remove"
    ELSE IF Contains(message, s_expiring) THEN "_handle_expiring"
    ELSE IF Contains(message, s_suggestions) THEN "_handle_suggestions"
    ELSE IF Contains(message, s_clear_list) THEN "_handle_clear"
    ELSE IF Contains(message, s_list) \/ Contains(message, s_show_list) THEN "_handle_list"
    ELSE IF Contains(message, s_purchase) THEN "_handle_purchase"
    ELSE IF Contains(message, s_hello) \/ Contains(message, s_hi) THEN "greeting"
    ELSE "none"

\* the branch of get_reply that a (lower-cased) message takes
branch(message) ==
    IF Contains(message, s_add) THEN "_handle_add"
    ELSE IF Contains(message, s_remove) THEN "_handle_remove"
    ELSE IF Contains(message, s_expiring) THEN "_handle_expiring"
    ELSE IF Contains(message, s_suggestions) THEN "_handle_suggestions"
    ELSE IF Contains(message, s_list) \/ Contains(message, s_show_list) THEN "_handle_list"
    ELSE IF Contains(message, s_clear_list) THEN "_handle_clear"
    ELSE IF Contains(message, s_purchase) THEN "_handle_purchase"
    ELSE IF Contains(message, s_hello) \/ Contains(message, s_hi) THEN "greeting"
    ELSE "none"

\* the branch taken, for each message of the model
Branches == [m \in LoweredMessages |-> branch(m)]

\* Chatbot.get_reply; handler names the branch taken
get_reply(S, msg, now) ==
    LET message == Lowered[msg]
        handler == Branches[message]
        h == CASE handler = "_handle_add" -> _handle_add(S, message)
               [] handler = "_handle_remove" -> _handle_remove(S, message)
               [] handler = "_handle_expiring" -> _handle_expiring(S, message, now)
               [] handler = "_handle_suggestions" -> _handle_suggestions(S, message, now)
               [] handler = "_handle_list" -> _handle_list(S, message)
               [] handler = "_handle_clear" -> _handle_clear(S, message, now)
               [] handler = "_handle_purchase" -> _handle_purchase(S, message, now)
               [] handler = "greeting" ->
                    Handled(S, <<"Hello! How can I help you with your groceries today?">>,
                            FALSE)
               [] OTHER -> Handled(S, <<"Sorry, I don't understand.">>, FALSE)
    IN  [st |-> h.st, ret |-> [reply |-> h.reply, refresh |-> h.refresh],
         raised |-> "", handler |-> handler]

---------------------------------------------------------------------------
(* The program *)

Call(op, arg, r) ==
    [op |-> op, arg |-> arg, ret |-> r.ret, raised |-> r.raised, wrote |-> r.st.wrote]

Commit(S) ==
    /\ items' = S.items
    /\ purchase_history' = S.purchase_history
    /\ categories' = S.categories
    /\ listFile' = S.listFile
    /\ historyFile' = S.historyFile
    /\ categoriesFile' = S.categoriesFile

\* process start: the three files are whatever is on disk; __init__ has set
\* self.items = [] and is about to load the purchase history
Started ==
    /\ pc = "load_purchase_history"
    /\ today = StartDate
    /\ items = <<>>
    /\ purchase_history = <<>>
    /\ categories = <<>>
    /\ last = [op |-> "start", arg |-> None, ret |-> None, raised |-> "", wrote |-> {}]

Init ==
    /\ Started
    /\ \E disk \in StartDisks :
        /\ listFile = disk[1]
        /\ historyFile = disk[2]
        /\ categoriesFile = disk[3]

\* __init__: self.purchase_history = self.load_purchase_history()
InitLoadHistory ==
    /\ pc = "load_purchase_history"
    /\ LET r == load_purchase_history(Cur)
       IN  /\ Commit([r.st EXCEPT !.purchase_history = r.ret])
           /\ last' = Call("load_purchase_history", historyFile, r)
    /\ pc' = "load_categories"
    /\ UNCHANGED today

\* __init__: self.categories = self.load_categories(); an exception ends the
\* import of assistant_logic, and with it the process
InitLoadCategories ==
    /\ pc = "load_categories"
    /\ LET r == load_categories(Cur)
       IN  /\ Commit(IF r.raised = "" THEN [r.st EXCEPT !.categories = r.ret] ELSE r.st)
           /\ last' = Call("load_categories", categoriesFile, r)
           /\ pc' = IF r.raised = "" THEN "load_grocery_list" ELSE "crashed"
    /\ UNCHANGED today

\* __init__: self.load_grocery_list()
InitLoadList ==
    /\ pc = "load_grocery_list"
    /\ LET r == load_grocery_list(Cur)
       IN  /\ Commit(r.st)
           /\ last' = Call("load_grocery_list", listFile, r)
    /\ pc' = "ready"
    /\ UNCHANGED today

\* POST /grocery-list
AddItem ==
    /\ pc = "ready"
    /\ Len(items) < MaxItems
    /\ \E item \in ApiItems :
        LET r == add_item_to_list(Cur, item)
        IN  Commit(r.st) /\ last' = Call("add_item_to_list", item, r)
    /\ UNCHANGED <<pc, today>>

\* DELETE /grocery-list/{item_name}
RemoveItem ==
    /\ pc = "ready"
    /\ \E item_name \in RemoveQueries :
        LET r == remove_item_from_list(Cur, item_name)
        IN  Commit(r.st) /\ last' = Call("remove_item_from_list", item_name, r)
    /\ UNCHANGED <<pc, today>>

\* GET /grocery-list
GetGroceryList ==
    /\ pc = "ready"
    /\ LET r == get_grocery_list(Cur)
       IN  Commit(r.st) /\ last' = Call("get_grocery_list", None, r)
    /\ UNCHANGED <<pc, today>>

\* GET /suggestions/missing: reloads the history and the list first
GetMissingItemSuggestions ==
    /\ pc = "ready"
    /\ LET h == load_purchase_history(Cur)
           l == load_grocery_list([h.st EXCEPT !.purchase_history = h.ret])
           r == Returns(l.st, suggest_missing_items(l.st, today))
       IN  Commit(r.st) /\ last' = Call("suggest_missing_items", None, r)
    /\ UNCHANGED <<pc, today>>

\* GET /suggestions/healthier: reloads the list first
GetHealthierAlternativeSuggestions ==
    /\ pc = "ready"
    /\ LET l == load_grocery_list(Cur)
           r == Returns(l.st, suggest_healthier_alternatives(l.st))
       IN  Commit(r.st) /\ last' = Call("suggest_healthier_alternatives", None, r)
    /\ UNCHANGED <<pc, today>>

\* GET /reminders/expiry: reloads the list first
GetExpiryReminders ==
    /\ pc = "ready"
    /\ LET l == load_grocery_list(Cur)
           r == Returns(l.st, get_expiry_reminders(l.st, today))
       IN  Commit(r.st) /\ last' = Call("get_expiry_reminders", None, r)
    /\ UNCHANGED <<pc, today>>

\* POST /purchase
MarkItemsAsPurchased ==
    /\ pc = "ready"
    /\ LET r == mark_items_as_purchased(Cur, today)
       IN  Commit(r.st) /\ last' = Call("mark_items_as_purchased", None, r)
    /\ UNCHANGED <<pc, today>>

\* POST /chatbot
Chat ==
    /\ pc = "ready"
    /\ \E message \in Messages :
        LET r == get_reply(Cur, message, today)
        IN  /\ Len(r.st.items) <= MaxItems
            /\ Commit(r.st)
            /\ last' = Call("get_reply", message, r) @@ [handler |-> r.handler]
    /\ UNCHANGED <<pc, today>>

\* midnight: date.today() moves to the next day
Tick ==
    /\ pc = "ready"
    /\ days_between(today, StartDate) < MaxTicks
    /\ today' = next_day(today)
    /\ last' = [op |-> "tick", arg |-> None, ret |-> None, raised |-> "", wrote |-> {}]
    /\ UNCHANGED <<pc, items, purchase_history, categories,
                   listFile, historyFile, categoriesFile>>

Next ==
    \/ InitLoadHistory
    \/ InitLoadCategories
    \/ InitLoadList
    \/ AddItem
    \/ RemoveItem
    \/ GetGroceryList
    \/ GetMissingItemSuggestions
    \/ GetHealthierAlternativeSuggestions
    \/ GetExpiryReminders
    \/ MarkItemsAsPurchased
    \/ Chat
    \/ Tick

Spec == Init /\ [][Next]_vars

\* Construction alone, on every combination of the three files
InitLoad ==
    /\ Started
    /\ listFile \in ListFiles
    /\ historyFile \in HistoryFiles
    /\ categoriesFile \in CategoriesFiles

NextLoad ==
    \/ InitLoadHistory
    \/ InitLoadCategories
    \/ InitLoadList

SpecLoad == InitLoad /\ [][NextLoad]_vars

---------------------------------------------------------------------------
(* Properties *)

IsPurchaseClosing(call) ==
    \/ call.op = "mark_items_as_purchased"
    \/ call.op = "get_reply" /\ call.handler \in {"_handle_purchase", "_handle_clear"}

\* history h has an entry under key k whose last purchase date is the date d
DatedEntry(h, k, d) ==
    \E j \in 1..Len(h) : h[j].key = k /\ strptime(h[j].value.last_purchase_date) = d

\* C1: when mark_items_as_purchased completes (called directly or by the chat
\* purchase handler), the list is empty in memory and on disk, and every item
\* listed before the call has a history entry, in memory and on disk, under its
\* lower-cased name, dated today.
C1_PurchaseClosing ==
    [][IsPurchaseClosing(last') =>
        /\ items' = <<>>
        /\ listFile' = Stored(<<>>)
        /\ historyFile'.state = "ok"
        /\ \A i \in 1..Len(items) :
            /\ DatedEntry(purchase_history', lower(items[i].name), today)
            /\ DatedEntry(historyFile'.data, lower(items[i].name), today)]_vars

\* a closing of a list that held "Milk" and "Soda", after midnight has passed
C1_Witness ==
    /\ last.op = "mark_items_as_purchased"
    /\ today # StartDate
    /\ DatedEntry(purchase_history, n_milk, today)
    /\ DatedEntry(historyFile.data, n_soda, today)

\* s is t without the entries at the indices outside keep, in t's order
IsRestriction(s, t, keep) ==
    /\ Len(s) = Cardinality(keep)
    /\ \E f \in [1..Len(s) -> keep] :
        /\ \A i, j \in 1..Len(s) : i < j => f[i] < f[j]
        /\ \A i \in 1..Len(s) : s[i] = t[f[i]]

\* C2: remove_item_from_list(q) leaves exactly the entries whose lower-cased
\* name differs from lower-cased q, in their order, and returns true iff an entry
\* was removed; when none matches it returns false, the list is unchanged and
\* grocery_list.json is not written.
C2_Remove ==
    [][last'.op = "remove_item_from_list" =>
        LET q == last'.arg
            keep == {i \in 1..Len(items) : lower(items[i].name) # lower(q)}
            nomatch == keep = 1..Len(items)
        IN  /\ IsRestriction(items', items, keep)
            /\ last'.ret = ~nomatch
            /\ nomatch => /\ items' = items
                          /\ listFile' = listFile
                          /\ "list" \notin last'.wrote
            /\ ~nomatch => listFile' = Stored(MapSeq(items', item_to_json))]_vars

\* a removal that found the name and left another entry in the list
C2_Witness ==
    /\ last.op = "remove_item_from_list"
    /\ last.ret = TRUE
    /\ last.arg = n_MILK
    /\ Len(items) = 1
    /\ "list" \in last.wrote

\* C3: after add_item_to_list(item), get_grocery_list returns the previous list
\* with the item, its fields unchanged, appended last; the add is not refused when
\* the name is already listed.
C3_AddThenGet ==
    [][last'.op = "add_item_to_list" =>
        /\ last'.raised = ""
        /\ last'.ret = last'.arg
        /\ get_grocery_list(Cur).ret' = Append(items, last'.arg)]_vars

\* an add of an item whose name, up to case, was already listed
C3_Witness ==
    /\ last.op = "add_item_to_list"
    /\ Len(items) = 2
    /\ items[2] = last.arg
    /\ lower(items[1].name) = lower(items[2].name)

IsLoad(call) ==
    call.op \in {"load_purchase_history", "load_categories", "load_grocery_list"}

\* C4: a load whose file is missing or malformed returns an empty collection,
\* and no load raises.
C4_LoadsNeverRaise ==
    IsLoad(last) =>
        /\ last.raised = ""
        /\ last.arg.state # "ok" =>
            /\ last.op = "load_purchase_history" => last.ret = <<>>
            /\ last.op = "load_categories" => last.ret = <<>>
            /\ last.op = "load_grocery_list" => items = <<>>

\* the dates of the raw entries whose key lower-cases to k
CollidingDates(raw, k) ==
    {strptime(raw[i].value.last_purchase_date) :
        i \in {j \in 1..Len(raw) : lower(raw[j].key) = k}}

\* C5: load_purchase_history on a stored history returns exactly one entry for
\* each lower-cased raw key, dated with the latest date of the raw entries that
\* collide on it, and purchase_history.json holds that result when it returns.
C5_HistoryDedup ==
    (last.op = "load_purchase_history" /\ last.arg.state = "ok") =>
        LET raw == last.arg.data
            ret == last.ret
        IN  /\ dict_keys(ret) = {lower(raw[i].key) : i \in 1..Len(raw)}
            /\ Len(ret) = Cardinality(dict_keys(ret))
            /\ \A j \in 1..Len(ret) :
                LET d == strptime(ret[j].value.last_purchase_date)
                    D == CollidingDates(raw, ret[j].key)
                IN  d \in D /\ \A e \in D : toordinal(e) <= toordinal(d)
            /\ historyFile = Stored(ret)

\* a load of two raw keys that collide, the second one holding the later date
C5_Witness ==
    /\ last.op = "load_purchase_history"
    /\ last.arg.state = "ok"
    /\ Len(last.arg.data) = 2
    /\ Len(last.ret) = 1
    /\ last.arg.data[1].key # last.arg.data[2].key
    /\ last.ret[1].value = last.arg.data[2].value
    /\ last.arg.data[1].value # last.arg.data[2].value

\* the age in days of the history entry e
AgeInDays(e) == toordinal(today) - toordinal(strptime(e.value.last_purchase_date))

Listed(k) == \E j \in 1..Len(items) : lower(items[j].name) = lower(k)

\* the suggestions of sugg that name k
Naming(sugg, k) == {i \in 1..Len(sugg) : sugg[i][2] = k}

DaysToExpiry(i) == toordinal(items[i].expiry_date[1]) - toordinal(today)

Keywords ==
    <<[words |-> {s_add}, handler |-> "_handle_add"],
      [words |-> {s_remove}, handler |-> "_handle_remove"],
      [words |-> {s_expiring}, handler |-> "_handle_expiring"],
      [words |-> {s_suggestions}, handler |-> "_handle_suggestions"],
      [words |-> {s_list}, handler |-> "_handle_list"],
      [words |-> {s_clear_list}, handler |-> "_handle_clear"],
      [words |-> {s_purchase}, handler |-> "_handle_purchase"],
      [words |-> {s_hello, s_hi}, handler |-> "greeting"]>>

Occurs(i, message) == \E w \in Keywords[i].words : Contains(message, w)

\* C8: get_reply routes a message to the handler of the first keyword, in the
\* order add, remove, expiring, suggestions, list, clear list, purchase,
\* greeting, that is a substring of the lower-cased message, and to the fallback
\* when none is.
C8_Dispatch ==
    last.op = "get_reply" =>
        LET message == lower(last.arg)
            found == {i \in 1..Len(Keywords) : Occurs(i, message)}
        IN  /\ found = {} => /\ last.handler = "none"
                             /\ last.ret.reply = <<"Sorry, I don't understand.">>
            /\ found # {} =>
                last.handler =
                    Keywords[CHOOSE i \in found : \A j \in found : i <= j].handler
            /\ (Contains(message, s_add) /\ Contains(message, s_list)) =>
                last.handler = "_handle_add"

\* a message holding both "add" and "list" went to the add handler
C8_Witness ==
    /\ last.op = "get_reply"
    /\ Contains(lower(last.arg), s_add)
    /\ Contains(lower(last.arg), s_list)
    /\ last.handler = "_handle_add"
    /\ last.ret.refresh

StateUnchanged ==
    /\ items' = items
    /\ purchase_history' = purchase_history
    /\ listFile' = listFile
    /\ historyFile' = historyFile

\* C9: a message routed to the add or the remove handler that the handler's
\* pattern does not match is answered with the usage hint and refresh = false,
\* and the list and the history, in memory and on disk, are unchanged.
C9_UsageHint ==
    [][last'.op = "get_reply" =>
        LET message == lower(last'.arg)
        IN  /\ (last'.handler = "_handle_add" /\ ~AddMatches[message].ok) =>
                /\ last'.ret = [reply |-> AddUsageHint, refresh |-> FALSE]
                /\ last'.wrote = {}
                /\ StateUnchanged
            /\ (last'.handler = "_handle_remove" /\ ~RemoveMatches[message].ok) =>
                /\ last'.ret = [reply |-> RemoveUsageHint, refresh |-> FALSE]
                /\ last'.wrote = {}
                /\ StateUnchanged]_vars

\* "add milk" (one space, so the pattern fails) was answered with the hint
\* while the list held items
C9_Witness ==
    /\ last.op = "get_reply"
    /\ last.handler = "_handle_add"
    /\ ~AddMatches[lower(last.arg)].ok
    /\ last.ret.reply = AddUsageHint
    /\ items # <<>>

\* C10: a get_reply that changes the list or the history, in memory or on
\* disk, returns refresh = true.
C10_RefreshOnChange ==
    [][(last'.op = "get_reply" /\ ~StateUnchanged) => last'.ret.refresh = TRUE]_vars

\* a chat removal took an entry out of the list and asked for a refresh
C10_Witness ==
    /\ last.op = "get_reply"
    /\ last.handler = "_handle_remove"
    /\ "list" \in last.wrote
    /\ last.ret.refresh

\* what a restart would read back from the two stores
persisted_items == load_grocery_list(Cur).st.items
persisted_history == load_purchase_history(Cur).ret

\* the last operation is one that changed self.items
ChangedList ==
    \/ last.op \in {"add_item_to_list", "mark_items_as_purchased"}
    \/ last.op = "remove_item_from_list" /\ last.ret = TRUE
    \/ /\ last.op = "get_reply"
       /\ \/ last.handler = "_handle_purchase"
          \/ last.handler = "_handle_add" /\ AddMatches[lower(last.arg)].ok
          \/ last.handler = "_handle_remove" /\ last.ret.refresh

\* C11: once the assistant is constructed, after every completed operation the
\* list read back from grocery_list.json equals self.items and the history read
\* back from purchase_history.json equals self.purchase_history; an add, an
\* effective remove or a purchase closing, direct or through chat, has written
\* the list file, a purchase closing the history file too, and a file written
\* by the operation holds exactly what is in memory.
C11_Persisted ==
    pc = "ready" =>
        /\ persisted_items = items
        /\ persisted_history = purchase_history
        /\ ChangedList => "list" \in last.wrote
        /\ (last.op = "mark_items_as_purchased"
                \/ (last.op = "get_reply" /\ last.handler = "_handle_purchase"))
            => "history" \in last.wrote
        /\ "list" \in last.wrote => listFile = Stored(MapSeq(items, item_to_json))
        /\ "history" \in last.wrote => historyFile = Stored(purchase_history)

\* a purchase closed through chat emptied a list that was stored with items:
\* both files were rewritten, the list file holds [] and the history file holds
\* the history with an entry dated today
C11_Witness ==
    /\ pc = "ready"
    /\ last.op = "get_reply"
    /\ last.handler = "_handle_purchase"
    /\ last.wrote = {"list", "history"}
    /\ items = <<>>
    /\ listFile = Stored(<<>>)
    /\ historyFile = Stored(purchase_history)
    /\ \E i \in 1..Len(purchase_history) :
        purchase_history[i].value = HistoryValue(isoformat(today))

\* messages put together from at most MaxProbeParts of these pieces
MaxProbeParts == 2
ProbeParts ==
    {<<"c", "l", "e", "a", "r", " ", "l", "i", "s", "t">>,
     <<"C", "l", "e", "a", "r", " ", "L", "i", "s", "t">>,
     <<"c", "l", "e", "a", "r">>,
     <<" ", "l", "i", "s", "t">>,
     <<" ">>,
     <<"a", "d", "d", " ">>,
     <<"r", "e", "m", "o", "v", "e", " ">>,
     <<"p", "u", "r", "c", "h", "a", "s", "e">>}
RECURSIVE Probes(_)
Probes(n) ==
    IF n = 0 THEN {<<>>}
    ELSE LET shorter == Probes(n - 1)
         IN  shorter \cup {p \o q : p \in shorter, q \in ProbeParts}

NoEarlierKeyword(message) ==
    /\ ~Contains(message, s_add)
    /\ ~Contains(message, s_remove)
    /\ ~Contains(message, s_expiring)
    /\ ~Contains(message, s_suggestions)

\* on every probe: "clear list" brings "list" with it, the dispatch never picks
\* the clear-list branch, and picks the list branch when no earlier keyword is in
\* the message
ClearListShadowed ==
    \A m \in Probes(MaxProbeParts) :
        LET message == lower(m)
        IN  /\ branch(message) # "_handle_clear"
            /\ Contains(message, s_clear_list) =>
                /\ Contains(message, s_list)
                /\ NoEarlierKeyword(message) => branch(message) = "_handle_list"

\* C12: get_reply never takes the clear-list branch; a message that contains
\* "clear list" and none of "add", "remove", "expiring", "suggestions" is
\* answered by the list handler: the reply is the formatted list, refresh is
\* false, nothing is written, and the list and the history are unchanged.
C12_ClearListUnreachable ==
    [][last'.op = "get_reply" =>
        LET message == lower(last'.arg)
        IN  /\ ClearListShadowed
            /\ last'.handler # "_handle_clear"
            /\ (Contains(message, s_clear_list) /\ NoEarlierKeyword(message)) =>
                /\ last'.handler = "_handle_list"
                /\ last'.ret = [reply |-> _get_list(Cur), refresh |-> FALSE]
                /\ last'.wrote = {}
                /\ StateUnchanged]_vars

\* "clear list" was answered with the list while the list held items, and
\* nothing was cleared
C12_Witness ==
    /\ last.op = "get_reply"
    /\ Contains(lower(last.arg), s_clear_list)
    /\ last.handler = "_handle_list"
    /\ last.ret = [reply |-> _get_list(Cur), refresh |-> FALSE]
    /\ last.wrote = {}
    /\ items # <<>>
    /\ listFile = Stored(MapSeq(items, item_to_json))

====
